---- MODULE Spec2Model ----
(***************************************************************************)
(* Model of daemon/container_windows.go: the assembly of the execdriver    *)
(* command of one container (populateCommand) and the isolation-           *)
(* conditional mount helpers (conditionalMountOnStart,                     *)
(* conditionalUnmountOnCleanup).                                           *)
(*                                                                         *)
(* Go strings that the code inspects (the network mode) are sequences of   *)
(* one-character strings; nil pointers are the empty sequence <<>> and a   *)
(* non-nil pointer is a one-element sequence holding the pointee.          *)
(***************************************************************************)
EXTENDS Integers, Sequences, FiniteSets, TLC

\* Longest image chain the graph store holds (leaf plus ancestors).
MaxDepth == 3
\* Cap on the rounds of one layer walk; above every acyclic chain's depth.
MaxRounds == MaxDepth + 2
\* Longest sequence of start-preparation / cleanup events on one container.
MaxEvents == 4

VARIABLES
    hostConfig,            \* c.hostConfig: NetworkMode, Isolation, ...
    Config,                \* c.Config: NetworkDisabled, MacAddress, ...
    HasBeenStartedBefore,  \* c.HasBeenStartedBefore
    graph,                 \* the image graph: chain depth, self-parented node
    answers,               \* what the graph store / driver answered per call
    pc,                    \* position inside populateCommand
    en,                    \* local en (*execdriver.Network)
    i,                     \* loop variable i (*image.Image), 0 is nil
    err,                   \* function-scope err of populateCommand
    layerPaths,            \* local layerPaths
    ret,                   \* the error populateCommand returned
    command,               \* c.command
    calls,                 \* collaborator calls of the current run, in order
    cmdAtEntry,            \* c.command when the current run was entered
    last,                  \* outcome of the previous run on the same inputs
    events,                \* mount lifecycle events handled so far
    driverCalls,           \* Mount / Unmount invocations, in order
    logged                 \* logrus.Errorf lines

vars == <<hostConfig, Config, HasBeenStartedBefore, graph, answers, pc, en, i,
          err, layerPaths, ret, command, calls, cmdAtEntry, last, events,
          driverCalls, logged>>

assemblyVars == <<answers, pc, en, i, err, layerPaths, ret, command, calls,
                  cmdAtEntry, last>>
mountVars == <<events, driverCalls, logged>>
inputVars == <<hostConfig, Config, HasBeenStartedBefore, graph>>

(***************************************************************************)
(* Strings                                                                 *)
(***************************************************************************)
ModeNone == <<"n", "o", "n", "e">>
ModeDefault == <<"d", "e", "f", "a", "u", "l", "t">>
ModeEmpty == <<>>
ModeBogus == <<"b", "o", "g", "u", "s", "-", "m", "o", "d", "e">>

\* The network mode strings a host configuration is drawn from.
NetworkModes ==
    { ModeNone, ModeDefault, ModeEmpty, ModeBogus,
      ModeNone \o <<":", "x">>,
      ModeDefault \o <<":", "y", ":", "z">>,
      <<":", "z">>,
      <<"n", "o", "n", ":", "e">> }

\* Index of the first ":" of s, 0 when s holds none.
FirstColon(s) ==
    IF \E k \in 1..Len(s) : s[k] = ":"
    THEN CHOOSE k \in 1..Len(s) : s[k] = ":" /\ \A j \in 1..(k - 1) : s[j] # ":"
    ELSE 0

\* strings.SplitN(s, ":", 2)
SplitN2(s) ==
    IF FirstColon(s) = 0
    THEN <<s>>
    ELSE <<SubSeq(s, 1, FirstColon(s) - 1), SubSeq(s, FirstColon(s) + 1, Len(s))>>

(***************************************************************************)
(* Errors                                                                  *)
(***************************************************************************)
MkErr(c, m, d, n) == [code |-> c, mode |-> m, driver |-> d, id |-> n]
NoError == MkErr("nil", <<>>, "", 0)
DriverString == "windowsfilter"

ErrInvalidNetworkMode(mode) == MkErr("ErrorCodeInvalidNetworkMode", mode, "", 0)
ErrGetGraph(imageID) == MkErr("ErrorCodeGetGraph", <<>>, "", imageID)
ErrGetLayer(id) == MkErr("ErrorCodeGetLayer", <<>>, DriverString, id)
ErrPutLayer(id) == MkErr("ErrorCodePutLayer", <<>>, DriverString, id)
ErrGetLayerMetadata == MkErr("ErrorCodeGetLayerMetadata", <<>>, "", 0)
ErrGetParent(id) == MkErr("graph.GetParent", <<>>, "", id)
ErrMount == MkErr("Mount", <<>>, "", 0)

(***************************************************************************)
(* Inputs: the container's configuration and the image graph               *)
(***************************************************************************)
VirtualSwitchName == "Virtual Switch"
ImageID == 1

HostConfigs ==
    [ NetworkMode : NetworkModes,
      IsHyperV : BOOLEAN,
      PortBindings : {"80/tcp"},
      CPUShares : {"512"},
      Privileged : {FALSE},
      ConsoleSize : {<<"0", "0">>} ]

Configs ==
    [ NetworkDisabled : BOOLEAN,
      MacAddress : {"", "00:15:5d:aa:bb:cc"},
      Tty : {FALSE},
      User : {"ContainerUser"},
      WorkingDir : {"C:\\"},
      Hostname : {"host1"} ]

\* A chain 1 -> 2 -> ... -> depth (1 is the leaf), possibly corrupted so that
\* node selfParent names itself as its parent; depth 0 is the empty image.
Graphs == { g \in [depth : 0..MaxDepth, selfParent : 0..MaxDepth] :
              g.selfParent <= g.depth }

\* The node graph.Get(c.ImageID) returns; 0 is the nil image.
Leaf(g) == IF g.depth = 0 THEN 0 ELSE ImageID

\* The node graph.GetParent(n) returns; 0 is nil (no parent).
Parent(g, n) ==
    IF n = g.selfParent THEN n
    ELSE IF n < g.depth THEN n + 1 ELSE 0

\* The path driver.Get(id, "") returns for a layer.
LayerPath(id) == <<"C:\\ProgramData\\docker\\windowsfilter", id>>

\* m["dir"] of driver.GetMetadata(c.ID)
LayerFolder == "C:\\ProgramData\\docker\\windowsfilter\\c1"

(***************************************************************************)
(* The graph store and the storage driver answer a call the same way every *)
(* time until they are modified: an answer is chosen when the call is      *)
(* first made and kept.                                                    *)
(***************************************************************************)
CallOps == {"graph.Get", "graph.GetParent", "driver.Get", "driver.Put",
            "driver.GetMetadata"}
CallKeys == CallOps \X (0..MaxDepth)
Unasked == [k \in CallKeys |-> "unasked"]

Outcomes(key) ==
    IF answers[key] = "unasked" THEN {"ok", "fail"} ELSE {answers[key]}

\* The call `op(id)` is made and answers o.
Call(op, id, o) ==
    /\ o \in Outcomes(<<op, id>>)
    /\ answers' = [answers EXCEPT ![<<op, id>>] = o]
    /\ calls' = Append(calls, [op |-> op, id |-> id, ok |-> (o = "ok")])

(***************************************************************************)
(* populateCommand                                                         *)
(***************************************************************************)
NetworkInterface(hc, cfg) ==
    [ MacAddress |-> cfg.MacAddress,
      Bridge |-> VirtualSwitchName,
      PortBindings |-> hc.PortBindings ]

\* Lines 59-81 with the error carrying only the part before the colon.
networkDispatch_prefixInError(hc, cfg) ==
    LET parts == SplitN2(hc.NetworkMode) IN
    IF parts[1] = ModeNone
    THEN [err |-> NoError, en |-> <<[Interface |-> <<>>]>>]
    ELSE IF parts[1] \in {ModeDefault, ModeEmpty}
    THEN [err |-> NoError,
          en |-> <<[Interface |-> IF ~cfg.NetworkDisabled
                                  THEN <<NetworkInterface(hc, cfg)>>
                                  ELSE <<>>]>>]
    ELSE [err |-> ErrInvalidNetworkMode(parts[1]), en |-> <<>>]

\* Lines 59-81 with the NetworkDisabled test dropped.
networkDispatch_ignoresDisabled(hc, cfg) ==
    LET parts == SplitN2(hc.NetworkMode) IN
    IF parts[1] = ModeNone
    THEN [err |-> NoError, en |-> <<[Interface |-> <<>>]>>]
    ELSE IF parts[1] \in {ModeDefault, ModeEmpty}
    THEN [err |-> NoError,
          en |-> <<[Interface |-> <<NetworkInterface(hc, cfg)>>]>>]
    ELSE [err |-> ErrInvalidNetworkMode(hc.NetworkMode), en |-> <<>>]

\* Lines 59-81: the network descriptor en, or the error returned.
networkDispatch(hc, cfg) ==
    LET parts == SplitN2(hc.NetworkMode) IN
    IF parts[1] = ModeNone
    THEN [err |-> NoError, en |-> <<[Interface |-> <<>>]>>]
    ELSE IF parts[1] \in {ModeDefault, ModeEmpty}
    THEN [err |-> NoError,
          en |-> <<[Interface |-> IF ~cfg.NetworkDisabled
                                  THEN <<NetworkInterface(hc, cfg)>>
                                  ELSE <<>>]>>]
    ELSE [err |-> ErrInvalidNetworkMode(hc.NetworkMode), en |-> <<>>]

\* Lines 84-88
Resources(hc) == [CPUShares |-> hc.CPUShares]

\* Lines 91-100
ProcessConfig(hc, cfg) ==
    [ Privileged |-> hc.Privileged,
      Entrypoint |-> "cmd",
      Arguments |-> <<"/c", "echo">>,
      Tty |-> cfg.Tty,
      User |-> cfg.User,
      ConsoleSize |-> hc.ConsoleSize,
      Env |-> <<"A=1">> ]

\* Lines 124-141
Command(hc, cfg, started, network, paths, folder) ==
    [ ID |-> "c1",
      Rootfs |-> "rootfs",
      InitPath |-> "/.dockerinit",
      WorkingDir |-> cfg.WorkingDir,
      Network |-> network,
      MountLabel |-> "",
      Resources |-> Resources(hc),
      ProcessConfig |-> ProcessConfig(hc, cfg),
      ProcessLabel |-> "",
      FirstStart |-> ~started,
      LayerFolder |-> folder,
      LayerPaths |-> paths,
      Hostname |-> cfg.Hostname,
      Isolated |-> hc.IsHyperV ]

\* Line 102 with the slice kept across calls instead of declared afresh.
declLayerPaths_kept == layerPaths

\* Line 102: var layerPaths []string
declLayerPaths == <<>>

\* Lines 109-113 with the Put of a layer that was got left out.
pcAfterGet_skipPut(o) == IF o = "fail" THEN "returned" ELSE "getParent"

\* Lines 109-113: where control goes after driver.Get answered o.
pcAfterGet(o) == IF o = "fail" THEN "returned" ELSE "driverPut"

\* Entry of populateCommand and lines 59-81.
populateCommand ==
    /\ pc = "idle"
    /\ cmdAtEntry' = command
    /\ calls' = <<>>
    /\ LET d == networkDispatch(hostConfig, Config) IN
       IF d.err # NoError
       THEN /\ pc' = "returned"
            /\ ret' = d.err
            /\ en' = <<>>
       ELSE /\ pc' = "graphGet"
            /\ ret' = NoError
            /\ en' = d.en
    /\ UNCHANGED <<answers, i, err, layerPaths, command, last>>
    /\ UNCHANGED <<inputVars, mountVars>>

\* Lines 102-106: img, err := c.daemon.graph.Get(c.ImageID)
graphGet ==
    /\ pc = "graphGet"
    /\ layerPaths' = declLayerPaths
    /\ \E o \in {"ok", "fail"} :
        /\ Call("graph.Get", ImageID, o)
        /\ IF o = "fail"
           THEN /\ err' = ErrGetGraph(ImageID)
                /\ ret' = ErrGetGraph(ImageID)
                /\ pc' = "returned"
                /\ i' = i
           ELSE /\ err' = NoError
                /\ i' = Leaf(graph)
                /\ pc' = "loopCond"
                /\ ret' = ret
    /\ UNCHANGED <<en, command, cmdAtEntry, last>>
    /\ UNCHANGED <<inputVars, mountVars>>

\* Line 107, the loop condition: i != nil && err == nil
loopCond ==
    /\ pc = "loopCond"
    /\ pc' = IF i # 0 /\ err = NoError THEN "driverGet" ELSE "getMetadata"
    /\ UNCHANGED <<answers, en, i, err, layerPaths, ret, command, calls,
                   cmdAtEntry, last>>
    /\ UNCHANGED <<inputVars, mountVars>>

\* Lines 108-112: lp, err := c.daemon.driver.Get(i.ID, ""); the err declared
\* here is local to the loop body.
driverGet ==
    /\ pc = "driverGet"
    /\ Len(layerPaths) < MaxRounds
    /\ \E o \in {"ok", "fail"} :
        /\ Call("driver.Get", i, o)
        /\ pc' = pcAfterGet(o)
        /\ IF o = "fail"
           THEN /\ ret' = ErrGetLayer(i)
                /\ layerPaths' = layerPaths
           ELSE /\ ret' = ret
                /\ layerPaths' = Append(layerPaths, LayerPath(i))
    /\ UNCHANGED <<en, i, err, command, cmdAtEntry, last>>
    /\ UNCHANGED <<inputVars, mountVars>>

\* Lines 113-116: err = c.daemon.driver.Put(i.ID), on the loop body's err.
driverPut ==
    /\ pc = "driverPut"
    /\ \E o \in {"ok", "fail"} :
        /\ Call("driver.Put", i, o)
        /\ IF o = "fail"
           THEN /\ ret' = ErrPutLayer(i)
                /\ pc' = "returned"
           ELSE /\ ret' = ret
                /\ pc' = "getParent"
    /\ UNCHANGED <<en, i, err, layerPaths, command, cmdAtEntry, last>>
    /\ UNCHANGED <<inputVars, mountVars>>

\* Line 107, the post statement: i, err = c.daemon.graph.GetParent(i), on the
\* function-scope err.
getParent ==
    /\ pc = "getParent"
    /\ \E o \in {"ok", "fail"} :
        /\ Call("graph.GetParent", i, o)
        /\ IF o = "fail"
           THEN /\ i' = 0
                /\ err' = ErrGetParent(i)
           ELSE /\ i' = Parent(graph, i)
                /\ err' = NoError
    /\ pc' = "loopCond"
    /\ UNCHANGED <<en, layerPaths, ret, command, cmdAtEntry, last>>
    /\ UNCHANGED <<inputVars, mountVars>>

\* Lines 118-143: m, err := c.daemon.driver.GetMetadata(c.ID) assigns the
\* function-scope err anew; then the command is stored and nil returned.
getMetadata ==
    /\ pc = "getMetadata"
    /\ \E o \in {"ok", "fail"} :
        /\ Call("driver.GetMetadata", 0, o)
        /\ IF o = "fail"
           THEN /\ err' = ErrGetLayerMetadata
                /\ ret' = ErrGetLayerMetadata
                /\ command' = command
           ELSE /\ err' = NoError
                /\ ret' = NoError
                /\ command' = <<Command(hostConfig, Config, HasBeenStartedBefore,
                                        en, layerPaths, LayerFolder)>>
    /\ pc' = "returned"
    /\ UNCHANGED <<en, i, layerPaths, cmdAtEntry, last>>
    /\ UNCHANGED <<inputVars, mountVars>>

\* The caller has the result. The locals of the call are left as they are:
\* the next call declares each of them anew before reading it.
Return ==
    /\ pc = "returned"
    /\ pc' = "idle"
    /\ last' = <<[ret |-> ret, command |-> command]>>
    /\ UNCHANGED <<answers, en, i, err, layerPaths, ret, command, calls,
                   cmdAtEntry>>
    /\ UNCHANGED <<inputVars, mountVars>>

\* Between two calls the graph store or the storage driver is modified: its
\* answers may change from here on.
StoreModified ==
    /\ pc = "idle"
    /\ answers # Unasked
    /\ answers' = Unasked
    /\ last' = <<>>
    /\ UNCHANGED <<pc, en, i, err, layerPaths, ret, command, calls, cmdAtEntry>>
    /\ UNCHANGED <<inputVars, mountVars>>

Init ==
    /\ hostConfig \in HostConfigs
    /\ Config \in Configs
    /\ HasBeenStartedBefore \in BOOLEAN
    /\ graph \in Graphs
    /\ answers = Unasked
    /\ pc = "idle"
    /\ en = <<>>
    /\ i = 0
    /\ err = NoError
    /\ layerPaths = <<>>
    /\ ret = NoError
    /\ command = <<>>
    /\ calls = <<>>
    /\ cmdAtEntry = <<>>
    /\ last = <<>>
    /\ events = <<>>
    /\ driverCalls = <<>>
    /\ logged = <<>>

Next ==
    \/ populateCommand
    \/ graphGet
    \/ loopCond
    \/ driverGet
    \/ driverPut
    \/ getParent
    \/ getMetadata
    \/ Return
    \/ StoreModified

Spec == Init /\ [][Next]_vars

(***************************************************************************)
(* conditionalMountOnStart / conditionalUnmountOnCleanup                   *)
(***************************************************************************)
\* Line 199 with the Hyper-V test dropped.
mountsOnStart_always(hc) == TRUE

\* Line 199: we do not mount if a Hyper-V container.
mountsOnStart(hc) == ~hc.IsHyperV

\* Line 211 with the test inverted.
unmountsOnCleanup_inverted(hc) == hc.IsHyperV

\* Line 211: we do not unmount if a Hyper-V container.
unmountsOnCleanup(hc) == ~hc.IsHyperV

\* Lines 200-202: what conditionalMountOnStart returns after Mount answered.
mountError(ok) == IF ok THEN NoError ELSE ErrMount

\* Lines 212-214 with the failure of Unmount not logged.
unmountLog_silent(ok) == <<>>

\* Lines 212-214: what is logged after Unmount answered.
unmountLog(ok) ==
    IF ok THEN <<>> ELSE <<[id |-> "c1", msg |-> "Failed to umount filesystem"]>>

\* One start-preparation event (lines 197-205).
conditionalMountOnStart ==
    /\ Len(events) < MaxEvents
    /\ IF mountsOnStart(hostConfig)
       THEN \E ok \in BOOLEAN :
              /\ driverCalls' = Append(driverCalls, [op |-> "Mount", ok |-> ok])
              /\ events' = Append(events,
                                  [ev |-> "start",
                                   called |-> <<[op |-> "Mount", ok |-> ok]>>,
                                   ret |-> mountError(ok)])
       ELSE /\ driverCalls' = driverCalls
            /\ events' = Append(events,
                                [ev |-> "start", called |-> <<>>, ret |-> NoError])
    /\ logged' = logged
    /\ UNCHANGED <<inputVars, assemblyVars>>

\* One cleanup event (lines 209-216); the function has no result.
conditionalUnmountOnCleanup ==
    /\ Len(events) < MaxEvents
    /\ IF unmountsOnCleanup(hostConfig)
       THEN \E ok \in BOOLEAN :
              /\ driverCalls' = Append(driverCalls, [op |-> "Unmount", ok |-> ok])
              /\ events' = Append(events,
                                  [ev |-> "cleanup",
                                   called |-> <<[op |-> "Unmount", ok |-> ok]>>,
                                   ret |-> NoError])
              /\ logged' = logged \o unmountLog(ok)
       ELSE /\ driverCalls' = driverCalls
            /\ events' = Append(events,
                                [ev |-> "cleanup", called |-> <<>>, ret |-> NoError])
            /\ logged' = logged
    /\ UNCHANGED <<inputVars, assemblyVars>>

\* The lifecycle events are studied on their own: one network mode, one
\* image, both isolation modes.
InitMount ==
    /\ Init
    /\ hostConfig.NetworkMode = ModeDefault
    /\ ~Config.NetworkDisabled
    /\ Config.MacAddress = ""
    /\ ~HasBeenStartedBefore
    /\ graph = [depth |-> 1, selfParent |-> 0]

NextMount ==
    \/ conditionalMountOnStart
    \/ conditionalUnmountOnCleanup

SpecMount == InitMount /\ [][NextMount]_vars

(***************************************************************************)
(* Properties                                                              *)
(***************************************************************************)
Returned == pc = "returned"
Succeeded == Returned /\ ret = NoError

\* The network modes by the part before their first colon, written out.
ModesNone == {ModeNone, ModeNone \o <<":", "x">>}
ModesDefault == {ModeDefault, ModeDefault \o <<":", "y", ":", "z">>}
ModesEmpty == {ModeEmpty, <<":", "z">>}
ModesInvalid == {ModeBogus, <<"n", "o", "n", ":", "e">>}

NilInterface == <<[Interface |-> <<>>]>>
ConfiguredInterface ==
    <<[Interface |-> <<[MacAddress |-> Config.MacAddress,
                        Bridge |-> "Virtual Switch",
                        PortBindings |-> hostConfig.PortBindings]>>]>>

\* The positions of `calls` holding a call of op.
CallsOf(op) == {k \in 1..Len(calls) : calls[k].op = op}

\* C1: for an image chain of depth N, every successful populateCommand
\* stores a LayerPaths list of exactly N entries, the i-th being the path the
\* driver returned for the i-th node counted from the leaf.
C1_LayerPathsLeafToRoot ==
    (Succeeded /\ graph.selfParent = 0)
        => command[1].LayerPaths = [k \in 1..graph.depth |-> LayerPath(k)]

\* C2: when populateCommand returns, on the success path and on every error
\* path, each successful driver.Get(id) was followed at once by exactly one
\* driver.Put(id), and no other Put was made: successful acquires and
\* release calls are equal in number.
C2_AcquireReleaseBalanced ==
    Returned =>
        /\ \A k \in CallsOf("driver.Get") :
              calls[k].ok =>
                  /\ k < Len(calls)
                  /\ calls[k + 1].op = "driver.Put"
                  /\ calls[k + 1].id = calls[k].id
        /\ \A k \in CallsOf("driver.Put") :
              /\ k > 1
              /\ calls[k - 1].op = "driver.Get"
              /\ calls[k - 1].ok
              /\ calls[k - 1].id = calls[k].id
        /\ Cardinality({k \in CallsOf("driver.Get") : calls[k].ok})
              = Cardinality(CallsOf("driver.Put"))

\* Two layers were acquired and the call returned an error.
C2_Witness ==
    /\ Returned
    /\ ret # NoError
    /\ Cardinality({k \in CallsOf("driver.Get") : calls[k].ok}) >= 2

\* C3: the network descriptor is decided by the part of the mode before the
\* first colon: none gives no interface; default gives the configured MAC
\* address, bridge and port bindings when networking is enabled and a nil
\* interface when it is disabled; the empty string gives what default gives;
\* any other mode returns InvalidNetworkMode carrying the whole mode string,
\* before any collaborator is called.
C3_NetworkModeDispatch ==
    LET mode == hostConfig.NetworkMode
        expected == IF mode \in ModesNone \/ Config.NetworkDisabled
                    THEN NilInterface
                    ELSE ConfiguredInterface
    IN /\ pc \in {"graphGet", "loopCond", "driverGet", "driverPut", "getParent",
                  "getMetadata"}
            => mode \notin ModesInvalid /\ en = expected
       /\ Succeeded => mode \notin ModesInvalid /\ command[1].Network = expected
       /\ (Returned /\ mode \in ModesInvalid)
            => /\ ret = MkErr("ErrorCodeInvalidNetworkMode", mode, "", 0)
               /\ calls = <<>>
               /\ command = cmdAtEntry

\* The mode ":z" (empty before the colon) with networking enabled and a MAC
\* address configured was assembled.
C3_Witness ==
    /\ Succeeded
    /\ hostConfig.NetworkMode = <<":", "z">>
    /\ ~Config.NetworkDisabled
    /\ Config.MacAddress # ""
    /\ command[1].Network = ConfiguredInterface

\* C4: on a process-isolated container every start-preparation event invokes
\* Mount exactly once and every cleanup event invokes Unmount exactly once;
\* on a Hyper-V container neither is ever invoked.
C4_OneCallPerEvent ==
    IF hostConfig.IsHyperV
    THEN /\ driverCalls = <<>>
         /\ \A k \in 1..Len(events) : events[k].called = <<>>
    ELSE /\ Len(driverCalls) = Len(events)
         /\ \A k \in 1..Len(events) :
              /\ Len(events[k].called) = 1
              /\ events[k].called[1] = driverCalls[k]
              /\ driverCalls[k].op =
                    IF events[k].ev = "start" THEN "Mount" ELSE "Unmount"

\* A process-isolated container went through a start-preparation and a
\* cleanup.
C4_Witness ==
    /\ ~hostConfig.IsHyperV
    /\ Len(events) >= 2
    /\ events[1].ev = "start"
    /\ events[2].ev = "cleanup"
    /\ driverCalls[1].op = "Mount"
    /\ driverCalls[2].op = "Unmount"

\* C5: a cleanup whose Unmount fails still completes, hands no error to its
\* caller, and logs the failure (and logs nothing otherwise); a start-
\* preparation whose Mount fails returns that error.
C5_UnmountFailureLoggedMountFailureReturned ==
    /\ \A k \in 1..Len(events) :
          /\ events[k].ev = "cleanup" => events[k].ret = NoError
          /\ (events[k].ev = "start" /\ events[k].called # <<>>)
                => (events[k].ret = NoError <=> events[k].called[1].ok)
    /\ Len(logged) =
          Cardinality({k \in 1..Len(driverCalls) :
                          driverCalls[k].op = "Unmount" /\ ~driverCalls[k].ok})

\* A Mount failed in a start-preparation and an Unmount failed in the
\* cleanup that followed, after which another event was handled.
C5_Witness ==
    /\ Len(events) >= 3
    /\ events[1].ev = "start" /\ events[1].ret # NoError
    /\ events[2].ev = "cleanup"
    /\ events[2].called # <<>> /\ ~events[2].called[1].ok
    /\ Len(logged) = 1

\* C6: if any step of the assembly fails, populateCommand aborts at that
\* step: the failed call is the last collaborator call made, an error is
\* returned and the command is left as it was.
C6_AbortOnFirstError ==
    Returned =>
        /\ \A k \in 1..Len(calls) :
              ~calls[k].ok =>
                  /\ k = Len(calls)
                  /\ ret # NoError
                  /\ command = cmdAtEntry
        /\ hostConfig.NetworkMode \in ModesInvalid
              => ret # NoError /\ calls = <<>> /\ command = cmdAtEntry

\* C7: a second populateCommand on the same configuration, against a graph
\* store and a storage driver that answer as before, returns the same error
\* and leaves a command equal in every field.
C7_Deterministic ==
    (Returned /\ last # <<>>)
        => ret = last[1].ret /\ command = last[1].command

\* A second run over a chain of two layers or more succeeded.
C7_Witness ==
    /\ Succeeded
    /\ last # <<>>
    /\ Len(command[1].LayerPaths) >= 2

\* In a sequence of Mount / Unmount invocations: no Mount follows a Mount
\* directly, and every Unmount directly follows a Mount that succeeded.
Matched(dc) ==
    \A k \in 1..Len(dc) :
        /\ dc[k].op = "Mount" => (k = 1 \/ dc[k - 1].op = "Unmount")
        /\ dc[k].op = "Unmount"
              => (k > 1 /\ dc[k - 1].op = "Mount" /\ dc[k - 1].ok)

\* The caller alternates start-preparation and cleanup, beginning with a
\* start-preparation, and goes on after a start-preparation only when it
\* returned no error.
CallerAlternates(ev) ==
    \A k \in 1..Len(ev) :
        /\ ev[k].ev = IF k % 2 = 1 THEN "start" ELSE "cleanup"
        /\ (ev[k].ev = "start" /\ k < Len(ev)) => ev[k].ret = NoError

\* C8 (as stated): over any sequence of start-preparation and cleanup events
\* Mount is never invoked twice without an Unmount in between, and Unmount
\* never without a prior successful Mount.
C8_NeverUnmatched == Matched(driverCalls)

\* C8 (amended): the same, over the sequences in which the caller alternates
\* the two events, starting with a start-preparation, and stops or cleans up
\* only after a Mount that succeeded.
C8_MatchedWhenCallerAlternates ==
    CallerAlternates(events) => Matched(driverCalls)

\* A process-isolated container went through two full start / cleanup
\* rounds.
C8_Witness ==
    /\ ~hostConfig.IsHyperV
    /\ Len(events) = 4
    /\ CallerAlternates(events)
    /\ Len(driverCalls) = 4

\* C9: the layer walk terminates on every graph, also one with a node that is
\* its own parent: it never comes back to a layer it has already resolved
\* (the store answering a call the same way each time, a walk that comes
\* back once comes back for ever).
C9_WalkNeverRevisits ==
    \A j, k \in CallsOf("driver.Get") : j # k => calls[j].id # calls[k].id

\* C10 (as stated): the descriptor for default (or empty) with networking
\* disabled differs from the descriptor the same inputs give under none.
C10_DisabledDiffersFromNone ==
    (/\ Succeeded
     /\ hostConfig.NetworkMode \in ModesDefault \cup ModesEmpty
     /\ Config.NetworkDisabled)
        => command[1].Network
              # networkDispatch([hostConfig EXCEPT !.NetworkMode = ModeNone],
                                Config).en

\* C10 (amended): default (or empty) with networking disabled and none give
\* the same descriptor, the one with a nil interface.
C10_DisabledSameAsNone ==
    (/\ Succeeded
     /\ \/ hostConfig.NetworkMode \in ModesNone
        \/ /\ hostConfig.NetworkMode \in ModesDefault \cup ModesEmpty
           /\ Config.NetworkDisabled)
        => command[1].Network = NilInterface

\* Mode default with networking disabled was assembled.
C10_Witness ==
    /\ Succeeded
    /\ hostConfig.NetworkMode = ModeDefault
    /\ Config.NetworkDisabled
    /\ command[1].Network = NilInterface

====
